---- MODULE Spec2Model ----
(***************************************************************************)
(* One run of prospector() of prospector/client/cli/prospector_client.py:  *)
(* the twin short-circuit, the interval check, candidate retrieval and    *)
(* the hard cap, the reconciliation against the remote store, local       *)
(* preprocessing with its overload abort, persistence, ranking and tag    *)
(* aggregation.                                                            *)
(*                                                                         *)
(* Collaborators that are not part of the file (the repository, the       *)
(* filter heuristic, the rules, the store) are modelled by their          *)
(* interface: every answer they can give is drawn with \E.                *)
(* Commit ids are the numbers 1..NumIds.  The numeric thresholds of the   *)
(* code (500 ids a batch, top 100 twins, a checkpoint every 100 commits,  *)
(* overload only above 1000 candidates) are scaled down so that the runs  *)
(* of the model cross them.                                                *)
(***************************************************************************)
EXTENDS Integers, Sequences, FiniteSets, TLC

\* ---------------------------------------------------------------- bounds
\* number of distinct commit ids of the repository
NumIds == 3
\* the longest ranking tag_and_aggregate_commits is called with on its own
MaxCommits == 2
\* ids per lookup batch (500 in retrieve_preprocessed_commits)
BatchSize == 2
\* length of the list prospector_find_twins returns (100 in the code)
TwinTop == 2
\* the overload check samples every CheckEvery processed commits (100 in the code)
CheckEvery == 2
\* the overload check needs more than OverloadMin candidates (1000 in the code)
OverloadMin == 2
Ids == 1..NumIds

\* lines 32-36: the time limits, in seconds
SECS_PER_DAY == 86400
TIME_LIMIT_BEFORE == 60 * SECS_PER_DAY
TIME_LIMIT_AFTER == 60 * SECS_PER_DAY
THREE_YEARS == 3 * 365 * SECS_PER_DAY
ONE_YEAR == 365 * SECS_PER_DAY

\* ------------------------------------------------------------- utilities
Range(s) == {s[i] : i \in 1..Len(s)}

Min(a, b) == IF a < b THEN a ELSE b

\* the sequences that list every element of S exactly once
Perms(S) ==
    {s \in [1..Cardinality(S) -> S] : \A i, j \in 1..Cardinality(S) : s[i] = s[j] => i = j}

\* the elements of S in increasing order
Sorted(S) == CHOOSE s \in Perms(S) : \A i, j \in 1..Len(s) : i < j => s[i] < s[j]

\* the dicts id -> RawCommit the repository can hand out, as the sequence of
\* their keys: the ids are numbered in the order the repository lists them
Dicts == {Sorted(S) : S \in SUBSET Ids}

\* s[i : j] of Python, 0-based, j exclusive, clipped to the sequence
Slice(s, i, j) == SubSeq(s, i + 1, Min(j, Len(s)))

RECURSIVE Flatten(_)
Flatten(ss) == IF ss = <<>> THEN <<>> ELSE Head(ss) \o Flatten(Tail(ss))

\* ----------------------------------------------------------------- state
VARIABLES
    pc,                 \* position of the run in prospector()
    fixing_commit,      \* advisory_record.get_fixing_commit(), as a set of ids
    ignore_adv_refs,    \* parameter
    version_interval,   \* parameter: "" or an interval string
    use_backend,        \* parameter: "always", "ifavailable", "never"
    limit_candidates,   \* parameter
    tags,               \* repository.get_tags()
    has_fixing_commit,  \* advisory_record.has_fixing_commit
    twins,              \* locals of prospector_find_twins: commits / preprocessed / ranked
    prev_tag, next_tag, \* get_possible_tags(tags, version_interval)
    candidates,         \* id -> RawCommit, as the sequence of its keys
    lookup,             \* locals of retrieve_preprocessed_commits: [i, responses, broke]
    missing,            \* raw commits to preprocess locally, as the sequence of their ids
    preprocessed_commits, \* Commit objects: [commit_id, origin]
    counter,            \* counter "preprocessed commits"
    payload,            \* [c.to_dict() for c in preprocessed_commits]
    ranked_candidates,  \* evaluate_commits(...)
    result,             \* what the run returned
    calls,              \* what the run has called after the twin search: tag
                        \* resolution, the repository's candidate scan, the
                        \* filter, normalization, the store, the ranking
    gets,               \* GET requests issued to the store: [ids, answer, body] of each
    posts,              \* POST requests issued to the store: the payload of each
    over_time,          \* the turn of the preprocessing loop that just ran evaluated
                        \* e_pre_time > 2 * count and found it true; the value is
                        \* read nowhere after the loop, where it is FALSE
    window,             \* since / until handed to repository.create_commits
    wargs,              \* get_commits called on its own: timestamp and time limits
    agg                 \* tag_and_aggregate_commits called on its own: [commits, returned]

vars == <<pc, fixing_commit, ignore_adv_refs, version_interval, use_backend,
          limit_candidates, tags, has_fixing_commit, twins, prev_tag, next_tag,
          candidates, lookup, missing, preprocessed_commits, counter, payload,
          ranked_candidates, result, calls, gets, posts, over_time, window, wargs,
          agg>>

\* what only the preprocessing loop, get_commits or a call of one function on
\* its own touches
aside == <<over_time, window, wargs, agg>>

params == <<fixing_commit, ignore_adv_refs, version_interval, use_backend,
            limit_candidates, tags>>

\* -------------------------------------------------------- data and helpers
\* make_from_raw_commit(raw_commit, simplify): the Commit keeps the raw commit's id
make_from_raw_commit(id, simplify) ==
    [commit_id |-> id, origin |-> IF simplify THEN "simplified" ELSE "full"]

\* Commit.parse_obj(rc): a Commit built from a record of the store
parse_obj(rc) == [commit_id |-> rc.commit_id, origin |-> "store"]

\* c.to_dict(): the wire record of a Commit; it is keyed by the commit id
to_dict(c) == [commit_id |-> c.commit_id]

NoTwins == [commits |-> <<>>, preprocessed |-> <<>>, ranked |-> <<>>]
NoLookup == [i |-> 0, responses |-> <<>>, broke |-> FALSE]
\* since = until = None, lines 424-425
NoWindow == [bounded |-> FALSE, since |-> 0, until |-> 0]
NoArgs == [published |-> 0, before |-> 0, after |-> 0]
NoAgg == [commits |-> <<>>, returned |-> <<>>]
NoResult == [kind |-> "none", commits |-> <<>>, count |-> 0]
Ranked(cs) == [kind |-> "ranked", commits |-> cs, count |-> 0]
Sentinel(n) == [kind |-> "sentinel", commits |-> <<>>, count |-> n]

\* apply_ranking(apply_rules(commits, advisory, rules)): the rules score the
\* commits whose id is in sc above the others; the ranking is descending by
\* score and keeps the incoming order among equal scores
evaluate_commits(commits, sc) ==
    SelectSeq(commits, LAMBDA c : c.commit_id \in sc)
        \o SelectSeq(commits, LAMBDA c : c.commit_id \notin sc)

\* the ids of the commits of a list
CommitIds(commits) == {commits[i].commit_id : i \in 1..Len(commits)}

\* filter_commits(commits): the heuristic keeps the commits of `keep`, in order
filter_commits(commits, keep) == SelectSeq(commits, LAMBDA id : id \in keep)

\* ------------------------------------------------------------------ inputs
FixingInputs == {{}, {1}}
IntervalInputs == {"", "v1:v2"}
BackendInputs == {"always", "ifavailable", "never"}
LimitInputs == {NumIds - 1, NumIds}
TagInputs == {<<>>, <<"v1">>}

\* the state when prospector() has built the advisory record, cloned the
\* repository and listed its tags (lines 107-139)
Init ==
    /\ pc = "start"
    /\ fixing_commit \in FixingInputs
    /\ ignore_adv_refs \in BOOLEAN
    /\ version_interval \in IntervalInputs
    /\ use_backend \in BackendInputs
    /\ limit_candidates \in LimitInputs
    /\ tags \in TagInputs
    /\ has_fixing_commit = FALSE
    /\ twins = NoTwins
    /\ prev_tag = ""
    /\ next_tag = ""
    /\ candidates = <<>>
    /\ lookup = NoLookup
    /\ missing = <<>>
    /\ preprocessed_commits = <<>>
    /\ counter = 0
    /\ payload = <<>>
    /\ ranked_candidates = <<>>
    /\ result = NoResult
    /\ calls = {}
    /\ gets = <<>>
    /\ posts = <<>>
    /\ over_time = FALSE
    /\ window = NoWindow
    /\ wargs = NoArgs
    /\ agg = NoAgg

\* ------------------------------------------------------ twin short-circuit
\* line 141: the twin search is tried when the advisory names a fixing commit
\* and its references are not ignored
TwinGuard == Cardinality(fixing_commit) > 0 /\ ~ignore_adv_refs

EnterTwins ==
    /\ pc = "start"
    /\ TwinGuard
    /\ pc' = "twin_lookup"
    /\ UNCHANGED <<params, aside, has_fixing_commit, twins, prev_tag, next_tag, candidates,
                   lookup, missing, preprocessed_commits, counter, payload,
                   ranked_candidates, result, calls, gets, posts>>

SkipTwins ==
    /\ pc = "start"
    /\ ~TwinGuard
    /\ pc' = "interval"
    /\ UNCHANGED <<params, aside, has_fixing_commit, twins, prev_tag, next_tag, candidates,
                   lookup, missing, preprocessed_commits, counter, payload,
                   ranked_candidates, result, calls, gets, posts>>

\* lines 50-55: the union of find_commits_for_twin_lookups over set(commit_ids)
TwinLookup ==
    /\ pc = "twin_lookup"
    /\ \E found \in Dicts :
          twins' = [twins EXCEPT !.commits = found]
    /\ pc' = "twin_filter"
    /\ UNCHANGED <<params, aside, has_fixing_commit, prev_tag, next_tag, candidates, lookup,
                   missing, preprocessed_commits, counter, payload, ranked_candidates,
                   result, calls, gets, posts>>

\* line 57
TwinFilter ==
    /\ pc = "twin_filter"
    /\ \E keep \in SUBSET Range(twins.commits) :
          twins' = [twins EXCEPT !.commits = filter_commits(twins.commits, keep)]
    /\ pc' = "twin_normalize"
    /\ UNCHANGED <<params, aside, has_fixing_commit, prev_tag, next_tag, candidates, lookup,
                   missing, preprocessed_commits, counter, payload, ranked_candidates,
                   result, calls, gets, posts>>

\* lines 59-62: the simplified normalization of every surviving raw commit
TwinNormalize ==
    /\ pc = "twin_normalize"
    /\ twins' = [twins EXCEPT !.preprocessed =
                    [i \in 1..Len(twins.commits) |->
                        make_from_raw_commit(twins.commits[i], TRUE)]]
    /\ pc' = "twin_rank"
    /\ UNCHANGED <<params, aside, has_fixing_commit, prev_tag, next_tag, candidates, lookup,
                   missing, preprocessed_commits, counter, payload, ranked_candidates,
                   result, calls, gets, posts>>

\* line 80: ranked_candidates[:100]
TwinTruncate(ranked) == SubSeq(ranked, 1, Min(TwinTop, Len(ranked)))

\* lines 73-80: rank with the rule set ALL, return the head of the ranking
TwinRank ==
    /\ pc = "twin_rank"
    /\ \E sc \in SUBSET CommitIds(twins.preprocessed) :
          twins' = [twins EXCEPT !.ranked =
                       TwinTruncate(evaluate_commits(twins.preprocessed, sc))]
    /\ pc' = "twin_check"
    /\ UNCHANGED <<params, aside, has_fixing_commit, prev_tag, next_tag, candidates, lookup,
                   missing, preprocessed_commits, counter, payload, ranked_candidates,
                   result, calls, gets, posts>>

\* mutant of TwinFound: only the top commit of the list is looked at
TwinFoundTopOnly(commits) ==
    /\ 0 < Len(commits)
    /\ commits[1].commit_id \in fixing_commit

\* lines 147-149: the returned list holds a commit the advisory names
TwinFound(commits) ==
    /\ 0 < Len(commits)
    /\ CommitIds(commits) \cap fixing_commit # {}

\* lines 147-153: on success the run returns the twins; otherwise it goes on
TwinCheck ==
    /\ pc = "twin_check"
    /\ IF TwinFound(twins.ranked)
       THEN /\ has_fixing_commit' = TRUE
            /\ result' = Ranked(twins.ranked)
            /\ pc' = "done"
       ELSE /\ pc' = "interval"
            /\ UNCHANGED <<has_fixing_commit, result>>
    /\ twins' = NoTwins
    /\ UNCHANGED <<params, aside, prev_tag, next_tag, candidates, lookup, missing,
                   preprocessed_commits, counter, payload, ranked_candidates, calls,
                   gets, posts>>

\* mutant of TwinRaise: the exception is not caught and ends the process
TwinRaiseUncaught ==
    /\ pc \in {"twin_lookup", "twin_filter", "twin_normalize", "twin_rank"}
    /\ twins' = NoTwins
    /\ pc' = "exited"
    /\ UNCHANGED <<params, aside, has_fixing_commit, prev_tag, next_tag, candidates, lookup,
                   missing, preprocessed_commits, counter, payload, ranked_candidates,
                   result, calls, gets, posts>>

\* lines 154-156: any exception of the twin search is logged, the run goes on
TwinRaise ==
    /\ pc \in {"twin_lookup", "twin_filter", "twin_normalize", "twin_rank"}
    /\ twins' = NoTwins
    /\ pc' = "interval"
    /\ UNCHANGED <<params, aside, has_fixing_commit, prev_tag, next_tag, candidates, lookup,
                   missing, preprocessed_commits, counter, payload, ranked_candidates,
                   result, calls, gets, posts>>

\* ------------------------------------------------------------ the interval
\* mutant of NoInterval: the early return is missing, the run goes on to scan
NoIntervalScans ==
    /\ pc = "interval"
    /\ version_interval = ""
    /\ pc' = "get_commits"
    /\ UNCHANGED <<params, aside, has_fixing_commit, twins, prev_tag, next_tag, candidates,
                   lookup, missing, preprocessed_commits, counter, payload,
                   ranked_candidates, result, calls, gets, posts>>

\* the missing interval ends the process instead of returning
NoIntervalExits ==
    /\ pc = "interval"
    /\ version_interval = ""
    /\ result' = result
    /\ pc' = "exited"
    /\ UNCHANGED <<params, aside, has_fixing_commit, twins, prev_tag, next_tag, candidates,
                   lookup, missing, preprocessed_commits, counter, payload,
                   ranked_candidates, calls, gets, posts>>

\* lines 168-172: without an interval string the run ends with (None, -1)
NoInterval ==
    /\ pc = "interval"
    /\ version_interval = ""
    /\ result' = Sentinel(-1)
    /\ pc' = "done"
    /\ UNCHANGED <<params, aside, has_fixing_commit, twins, prev_tag, next_tag, candidates,
                   lookup, missing, preprocessed_commits, counter, payload,
                   ranked_candidates, calls, gets, posts>>

\* what get_possible_tags can answer: each bound is a tag of the list or ""
TagAnswers(ts) == (Range(ts) \cup {""}) \X (Range(ts) \cup {""})

\* mutant of Unresolved: the bounds are compared with None instead of ""
UnresolvedIsNone(prev, next) == prev = "None" /\ next = "None"

\* line 162: neither bound of the interval was resolved
Unresolved(prev, next) == prev = "" /\ next = ""

\* lines 158-167: the interval is resolved; an unresolved one ends the run
ResolveInterval ==
    /\ pc = "interval"
    /\ version_interval # ""
    /\ \E pair \in TagAnswers(tags) :
          /\ prev_tag' = pair[1]
          /\ next_tag' = pair[2]
          /\ IF Unresolved(pair[1], pair[2])
             THEN result' = Sentinel(-1) /\ pc' = "done"
             ELSE result' = result /\ pc' = "get_commits"
    /\ calls' = calls \cup {"get_possible_tags"}
    /\ UNCHANGED <<params, aside, has_fixing_commit, twins, candidates, lookup, missing,
                   preprocessed_commits, counter, payload, ranked_candidates, gets,
                   posts>>

\* -------------------------------------------------------------- candidates
\* lines 175-182 and 410-444: get_commits asks the repository for the candidates
\* advisory_record.published_timestamp: 0 when the advisory carries no date
Timestamps == {0, SECS_PER_DAY, THREE_YEARS, 20000 * SECS_PER_DAY}
\* lines 93-94: the defaults of prospector(), and what a caller may pass instead
BeforeInputs == {-THREE_YEARS, TIME_LIMIT_BEFORE}
AfterInputs == {ONE_YEAR, TIME_LIMIT_AFTER}
ArgInputs == [published : Timestamps, before : BeforeInputs, after : AfterInputs]

\* lines 424-428: since and until stay None unless the advisory is dated and
\* neither tag is set
\* the test without prev_tag
SinceUntilNextOnly(published, prev, next, before, after) ==
    IF published # 0 /\ next = ""
    THEN [bounded |-> TRUE, since |-> published - before, until |-> published + after]
    ELSE NoWindow

SinceUntil(published, prev, next, before, after) ==
    IF published # 0 /\ next = "" /\ prev = ""
    THEN [bounded |-> TRUE, since |-> published - before, until |-> published + after]
    ELSE NoWindow

GetCommits ==
    /\ pc = "get_commits"
    /\ \E found \in Dicts : candidates' = found
    /\ \E a \in ArgInputs :
          window' = SinceUntil(a.published, prev_tag, next_tag, a.before, a.after)
    /\ calls' = calls \cup {"create_commits"}
    /\ pc' = "filter"
    /\ UNCHANGED <<params, over_time, wargs, agg, has_fixing_commit, twins, prev_tag, next_tag, lookup,
                   missing, preprocessed_commits, counter, payload, ranked_candidates,
                   result, gets, posts>>

\* lines 184 and 284-289: filter() keeps what filter_commits keeps
Filter ==
    /\ pc = "filter"
    /\ \E keep \in SUBSET Range(candidates) :
          candidates' = filter_commits(candidates, keep)
    /\ calls' = calls \cup {"filter_commits"}
    /\ pc' = "cap"
    /\ UNCHANGED <<params, aside, has_fixing_commit, twins, prev_tag, next_tag, lookup,
                   missing, preprocessed_commits, counter, payload, ranked_candidates,
                   result, gets, posts>>

\* mutant of TooMany: off by one, the ceiling itself is refused
TooManyOffByOne(n, limit) == n >= limit

\* mutant of TooMany: one candidate above the ceiling still passes
TooManyLax(n, limit) == n > limit + 1

\* line 186: the candidates are too many to proceed
TooMany(n, limit) == n > limit

\* lines 186-192: above the ceiling the run ends with (None, len(candidates))
Cap ==
    /\ pc = "cap"
    /\ IF TooMany(Len(candidates), limit_candidates)
       THEN result' = Sentinel(Len(candidates)) /\ pc' = "done"
       ELSE result' = result /\ pc' = "retrieve"
    /\ UNCHANGED <<params, aside, has_fixing_commit, twins, prev_tag, next_tag, candidates,
                   lookup, missing, preprocessed_commits, counter, payload,
                   ranked_candidates, calls, gets, posts>>

\* --------------------------------------------------- the preprocessing store
\* lines 199 and 215-217: with use_backend "never" the store is not asked, and
\* "missing" not in locals() makes every candidate a missing one
SkipRetrieve ==
    /\ pc = "retrieve"
    /\ use_backend = "never"
    /\ missing' = candidates
    /\ preprocessed_commits' = <<>>
    /\ pc' = "preprocess"
    /\ UNCHANGED <<params, aside, has_fixing_commit, twins, prev_tag, next_tag, candidates,
                   lookup, counter, payload, ranked_candidates, result, calls, gets,
                   posts>>

\* line 334: the ids of the batch that starts at offset i
BatchArgs(cands, i) == Slice(cands, i, i + BatchSize)

\* the bodies a 200 answer can carry for a request of n ids: any list of
\* records of at most n entries, duplicates and ids nobody asked for included
StoreAnswers(n) ==
    UNION {[1..k -> [commit_id : Ids]] : k \in 0..n}

\* a GET of the run: the ids asked for, how the store answered, the records
\* of a 200 answer
Get(ids, answer, body) == [ids |-> ids, answer |-> answer, body |-> body]

\* mutant of MustExit: the mode is compared with a name no caller passes
MustExitRequired(mode) == mode = "required"

\* line 210: an unreachable store ends the process
MustExit(mode) == mode = "always"

\* line 333: the loop has a batch left to ask
MoreBatches == ~lookup.broke /\ lookup.i < Len(candidates)

\* lines 333-341: a batch answered with status 200
LookupBatchOk ==
    /\ pc = "retrieve"
    /\ use_backend # "never"
    /\ MoreBatches
    /\ \E body \in StoreAnswers(Len(BatchArgs(candidates, lookup.i))) :
          /\ lookup' = [lookup EXCEPT !.i = @ + BatchSize,
                                      !.responses = Append(@, body)]
          /\ gets' = Append(gets, Get(BatchArgs(candidates, lookup.i), "200", body))
    /\ calls' = calls \cup {"GET"}
    /\ UNCHANGED <<pc, params, aside, has_fixing_commit, twins, prev_tag, next_tag,
                   candidates, missing, preprocessed_commits, counter, payload,
                   ranked_candidates, result, posts>>

\* lines 338-340: a batch answered with another status ends the loop
LookupBatchRefused ==
    /\ pc = "retrieve"
    /\ use_backend # "never"
    /\ MoreBatches
    /\ lookup' = [lookup EXCEPT !.broke = TRUE]
    /\ gets' = Append(gets, Get(BatchArgs(candidates, lookup.i), "refused", <<>>))
    /\ calls' = calls \cup {"GET"}
    /\ UNCHANGED <<pc, params, aside, has_fixing_commit, twins, prev_tag, next_tag,
                   candidates, missing, preprocessed_commits, counter, payload,
                   ranked_candidates, result, posts>>

\* lines 205-217: requests.get raises ConnectionError; "always" exits the
\* process, any other mode goes on with every candidate missing
LookupUnreachable ==
    /\ pc = "retrieve"
    /\ use_backend # "never"
    /\ MoreBatches
    /\ gets' = Append(gets, Get(BatchArgs(candidates, lookup.i), "unreachable", <<>>))
    /\ calls' = calls \cup {"GET"}
    /\ lookup' = NoLookup
    /\ IF MustExit(use_backend)
       THEN /\ pc' = "exited"
            /\ UNCHANGED <<missing, preprocessed_commits>>
       ELSE /\ pc' = "preprocess"
            /\ missing' = candidates
            /\ preprocessed_commits' = <<>>
    /\ UNCHANGED <<params, aside, has_fixing_commit, twins, prev_tag, next_tag, candidates,
                   counter, payload, ranked_candidates, result, posts>>

\* lines 347-353: the ids to preprocess locally
MissingIds(cands, retrieved) ==
    IF Len(retrieved) # Len(cands)
    THEN Range(cands) \ CommitIds(retrieved)
    ELSE {}

\* lines 343-360: the records of the answers become Commits, the rest is
\* missing; the set difference is listed in no particular order
LookupDiff ==
    /\ pc = "retrieve"
    /\ use_backend # "never"
    /\ ~MoreBatches
    /\ LET retrieved_commits == Flatten(lookup.responses)
       IN  /\ missing' \in Perms(MissingIds(candidates, retrieved_commits))
           /\ preprocessed_commits' =
                 [i \in 1..Len(retrieved_commits) |-> parse_obj(retrieved_commits[i])]
    /\ lookup' = NoLookup
    /\ pc' = "preprocess"
    /\ UNCHANGED <<params, aside, has_fixing_commit, twins, prev_tag, next_tag, candidates,
                   counter, payload, ranked_candidates, result, calls, gets, posts>>

\* ------------------------------------------------------ local preprocessing
\* the check without its condition on the number of candidates
OverloadAnySize(n, slow, total) == n % CheckEvery = 0 /\ slow

\* lines 234-242: the overload check after n processed commits
Overload(n, slow, total) == n % CheckEvery = 0 /\ slow /\ total > OverloadMin

\* lines 236-240: Python's "and" evaluates e_pre_time > 2 * count only in a
\* turn whose count is a multiple of the sampling step; the clock decides it
Slow(n) == IF n % CheckEvery = 0 THEN BOOLEAN ELSE {FALSE}

\* lines 230-244: one turn of the loop; slow is e_pre_time > 2 * counter
PreprocessOne ==
    /\ pc = "preprocess"
    /\ counter < Len(missing)
    /\ counter' = counter + 1
    /\ preprocessed_commits' =
          Append(preprocessed_commits, make_from_raw_commit(missing[counter + 1], FALSE))
    /\ calls' = calls \cup {"make_from_raw_commit"}
    /\ \E slow \in Slow(counter + 1) :
          /\ over_time' = slow
          /\ IF Overload(counter + 1, slow, Len(candidates))
             THEN result' = Sentinel(Len(candidates)) /\ pc' = "done"
             ELSE result' = result /\ pc' = "preprocess"
    /\ UNCHANGED <<params, window, wargs, agg, has_fixing_commit, twins, prev_tag, next_tag, candidates,
                   lookup, missing, payload, ranked_candidates, gets, posts>>

\* lines 219, 246-251: the loop is over (or there was nothing to do); the
\* time sample of its last turn is dead from here on
Payload ==
    /\ pc = "preprocess"
    /\ counter = Len(missing)
    /\ payload' = [i \in 1..Len(preprocessed_commits) |-> to_dict(preprocessed_commits[i])]
    /\ over_time' = FALSE
    /\ pc' = "save"
    /\ UNCHANGED <<params, window, wargs, agg, has_fixing_commit, twins, prev_tag, next_tag,
                   candidates, lookup, missing, preprocessed_commits, counter,
                   ranked_candidates, result, calls, gets, posts>>

\* ------------------------------------------------------------- persistence
\* mutant of ShouldSave: the mode is not looked at
ShouldSaveAnyMode == Len(payload) > 0 /\ Len(missing) > 0

\* the test without its condition on the missing list
ShouldSaveNothingMissing == Len(payload) > 0 /\ use_backend # "never"

\* line 253
ShouldSave == Len(payload) > 0 /\ use_backend # "never" /\ Len(missing) > 0

\* requests.post answers (its status is not looked at) or raises ConnectionError
PostOutcomes == {"answered", "connection_error"}

\* the POST with its ConnectionError left to propagate
SaveUncaught ==
    /\ pc = "save"
    /\ ShouldSave
    /\ \E outcome \in PostOutcomes :
          /\ posts' = Append(posts, [payload |-> payload, outcome |-> outcome])
          /\ pc' = IF outcome = "connection_error" THEN "exited" ELSE "evaluate"
    /\ calls' = calls \cup {"POST"}
    /\ UNCHANGED <<params, aside, has_fixing_commit, twins, prev_tag, next_tag, candidates,
                   lookup, missing, preprocessed_commits, counter, payload,
                   ranked_candidates, result, gets>>

\* lines 254 and 363-386: the POST; its status is only logged, a
\* ConnectionError is caught
Save ==
    /\ pc = "save"
    /\ ShouldSave
    /\ \E outcome \in PostOutcomes :
          posts' = Append(posts, [payload |-> payload, outcome |-> outcome])
    /\ calls' = calls \cup {"POST"}
    /\ pc' = "evaluate"
    /\ UNCHANGED <<params, aside, has_fixing_commit, twins, prev_tag, next_tag, candidates,
                   lookup, missing, preprocessed_commits, counter, payload,
                   ranked_candidates, result, gets>>

\* lines 255-256
SkipSave ==
    /\ pc = "save"
    /\ ~ShouldSave
    /\ pc' = "evaluate"
    /\ UNCHANGED <<params, aside, has_fixing_commit, twins, prev_tag, next_tag, candidates,
                   lookup, missing, preprocessed_commits, counter, payload,
                   ranked_candidates, result, calls, gets, posts>>

\* ------------------------------------------------- ranking and aggregation
\* line 258
Evaluate ==
    /\ pc = "evaluate"
    /\ ranked_candidates' \in {evaluate_commits(preprocessed_commits, sc) :
                                  sc \in SUBSET CommitIds(preprocessed_commits)}
    /\ calls' = calls \cup {"evaluate_commits"}
    /\ pc' = "aggregate"
    /\ UNCHANGED <<params, aside, has_fixing_commit, twins, prev_tag, next_tag, candidates,
                   lookup, missing, preprocessed_commits, counter, payload, result,
                   gets, posts>>

\* lines 302-323: without next_tag the ranking passes; with it the commits
\* that carry the tag are kept, in order (tagged: the ids whose commit has it)
tag_and_aggregate_commits(commits, tag, tagged) ==
    IF tag = "" THEN commits
    ELSE SelectSeq(commits, LAMBDA c : c.commit_id \in tagged)

\* lines 261-264: the aggregated list replaces the ranking and is returned
Aggregate ==
    /\ pc = "aggregate"
    /\ \E aggregated \in {tag_and_aggregate_commits(ranked_candidates, next_tag, tagged) :
                               tagged \in SUBSET CommitIds(ranked_candidates)} :
          /\ ranked_candidates' = aggregated
          /\ result' = Ranked(aggregated)
    /\ calls' = calls \cup {"tag_and_aggregate_commits"}
    /\ pc' = "done"
    /\ UNCHANGED <<params, aside, has_fixing_commit, twins, prev_tag, next_tag, candidates,
                   lookup, missing, preprocessed_commits, counter, payload, gets, posts>>

\* ------------------------------------------------------- the specification
Next ==
    \/ EnterTwins \/ SkipTwins
    \/ TwinLookup \/ TwinFilter \/ TwinNormalize \/ TwinRank \/ TwinCheck \/ TwinRaise
    \/ NoInterval \/ ResolveInterval
    \/ GetCommits \/ Filter \/ Cap
    \/ SkipRetrieve \/ LookupBatchOk \/ LookupBatchRefused \/ LookupUnreachable
    \/ LookupDiff
    \/ PreprocessOne \/ Payload
    \/ Save \/ SkipSave
    \/ Evaluate \/ Aggregate

Spec == Init /\ [][Next]_vars

\* ======================================================================
\* Functions called on their own
\* ======================================================================
\* the state of prospector() that a call of one function does not read
Quiet ==
    /\ fixing_commit = {}
    /\ ignore_adv_refs = FALSE
    /\ version_interval = "v1:v2"
    /\ use_backend = "never"
    /\ limit_candidates = NumIds
    /\ has_fixing_commit = FALSE
    /\ twins = NoTwins
    /\ candidates = <<>>
    /\ lookup = NoLookup
    /\ missing = <<>>
    /\ preprocessed_commits = <<>>
    /\ counter = 0
    /\ payload = <<>>
    /\ ranked_candidates = <<>>
    /\ result = NoResult
    /\ calls = {}
    /\ gets = <<>>
    /\ posts = <<>>
    /\ over_time = FALSE

quiet == <<fixing_commit, ignore_adv_refs, version_interval, use_backend,
           limit_candidates, has_fixing_commit, twins, candidates, lookup, missing,
           preprocessed_commits, counter, payload, ranked_candidates, result, calls,
           gets, posts, over_time>>

\* ------------------------------------------------------------- get_commits
\* lines 410-417: the tags get_commits can be called with
TagArgs == {"", "v1"}

InitWindow ==
    /\ Quiet
    /\ pc = "call"
    /\ tags = <<"v1">>
    /\ prev_tag \in TagArgs
    /\ next_tag \in TagArgs
    /\ wargs \in ArgInputs
    /\ window = NoWindow
    /\ agg = NoAgg

\* lines 424-436: get_commits up to its call of repository.create_commits
WindowCall ==
    /\ pc = "call"
    /\ window' = SinceUntil(wargs.published, prev_tag, next_tag, wargs.before, wargs.after)
    /\ pc' = "returned"
    /\ UNCHANGED <<quiet, tags, prev_tag, next_tag, wargs, agg>>

SpecWindow == InitWindow /\ [][WindowCall]_vars

\* ----------------------------------------------- tag_and_aggregate_commits
\* repository.get_tags()
RepoTags == <<"v1", "v2">>

\* Commit.tags: tags of the repository, none twice
TagLists == UNION {Perms(S) : S \in SUBSET Range(RepoTags)}

\* Commit.twins: [tag, commit id] entries; the id may be one of no commit of
\* the ranking
TwinLists ==
    {<<>>} \cup {<<[tag |-> t, id |-> i]>> : t \in Range(RepoTags), i \in 1..(MaxCommits + 1)}

\* a ranking of commits with the tags t and the twins w; the commit ranked
\* i-th has id i
Ranking(t, w) == [i \in 1..Len(t) |-> [commit_id |-> i, tags |-> t[i], twins |-> w[i]]]

\* commit.get_tag(): the first tag of the commit, "no-tag" without one
get_tag(commit) == IF Len(commit.tags) > 0 THEN commit.tags[1] ELSE "no-tag"

\* commit.has_tag(tag)
has_tag(commit, tag) == tag \in Range(commit.tags)

\* line 306: the dict comprehension; of two commits with one id the later
\* one sets the entry
twin_tags_map(commits) ==
    [id \in CommitIds(commits) |->
        LET last == CHOOSE i \in 1..Len(commits) :
                       /\ commits[i].commit_id = id
                       /\ \A j \in 1..Len(commits) : commits[j].commit_id = id => j <= i
        IN  get_tag(commits[last])]

\* the lookup with "" as its default
TwinTagEmpty(map, id) == IF id \in DOMAIN map THEN map[id] ELSE ""

\* line 312: twin_tags_map.get(twin[1], "no-tag")
TwinTag(map, id) == IF id \in DOMAIN map THEN map[id] ELSE "no-tag"

\* the twins are rewritten, the tags of the commit are left as they were
RetagTwinsOnly(commit, next, map) ==
    [commit_id |-> commit.commit_id,
     tags |-> commit.tags,
     twins |-> [k \in 1..Len(commit.twins) |->
                  [tag |-> TwinTag(map, commit.twins[k].id), id |-> commit.twins[k].id]]]

\* lines 310-312: what the loop does to a commit that has the tag
Retag(commit, next, map) ==
    [commit_id |-> commit.commit_id,
     tags |-> <<next>>,
     twins |-> [k \in 1..Len(commit.twins) |->
                  [tag |-> TwinTag(map, commit.twins[k].id), id |-> commit.twins[k].id]]]

\* lines 302-323, on commits with their tags and twins
TagAndAggregateCommits(commits, next) ==
    IF next = "" THEN commits
    ELSE LET map == twin_tags_map(commits)
             kept == SelectSeq(commits, LAMBDA c : has_tag(c, next))
         IN  [k \in 1..Len(kept) |-> Retag(kept[k], next, map)]

InitTags ==
    /\ Quiet
    /\ pc = "call"
    /\ tags = RepoTags
    /\ prev_tag = ""
    /\ next_tag \in {""} \cup Range(RepoTags)
    /\ wargs = NoArgs
    /\ window = NoWindow
    /\ \E k \in 0..MaxCommits :
          \E t \in [1..k -> TagLists], w \in [1..k -> TwinLists] :
             agg = [commits |-> Ranking(t, w), returned |-> <<>>]

\* a call of tag_and_aggregate_commits(agg.commits, next_tag)
AggregateCall ==
    /\ pc = "call"
    /\ agg' = [agg EXCEPT !.returned = TagAndAggregateCommits(agg.commits, next_tag)]
    /\ pc' = "returned"
    /\ UNCHANGED <<quiet, tags, prev_tag, next_tag, wargs, window>>

SpecTags == InitTags /\ [][AggregateCall]_vars

\* ======================================================================
\* Properties
\* ======================================================================
TwinStages == {"twin_lookup", "twin_filter", "twin_normalize", "twin_rank", "twin_check"}

Terminated == pc \in {"done", "exited"}

\* the list prospector_find_twins returned names a commit of the advisory
TwinMatch == CommitIds(twins.ranked) \cap fixing_commit # {}

\* C1: when the list returned by prospector_find_twins (at most TwinTop
\* commits, all normalized in the simplified way) holds a commit whose id the
\* advisory names, the run sets has_fixing_commit and returns exactly that
\* list, and it has resolved no tag, scanned no candidate and asked the store
\* nothing.
C1_TwinSuccessReturns ==
    [][(pc = "twin_check" /\ TwinMatch)
         => /\ TwinGuard
            /\ Len(twins.ranked) <= TwinTop
            /\ \A i \in 1..Len(twins.ranked) : twins.ranked[i].origin = "simplified"
            /\ pc' = "done"
            /\ has_fixing_commit' = TRUE
            /\ result' = Ranked(twins.ranked)
            /\ calls' = {} /\ gets' = <<>> /\ posts' = <<>>]_vars

C1_Witness ==
    /\ pc = "done"
    /\ has_fixing_commit
    /\ result.kind = "ranked"
    /\ Len(result.commits) = TwinTop
    /\ CommitIds(result.commits) \cap fixing_commit # {}
    /\ calls = {}

\* C2: a twin search that ends without a match, or that raises in lookup,
\* filtering, normalization or ranking, never ends the run: the next step of
\* the run is the interval check of the full pipeline, with no result yet,
\* and has_fixing_commit stays unset (it is set only in a run that returned
\* the twins).
C2_TwinFailureFallsThrough ==
    /\ [][(pc \in TwinStages /\ ~(pc = "twin_check" /\ TwinMatch))
            => /\ pc' \in TwinStages \cup {"interval"}
               /\ (pc = "twin_check" => pc' = "interval")
               /\ has_fixing_commit' = FALSE
               /\ result' = NoResult]_vars
    /\ [](has_fixing_commit => pc = "done" /\ calls = {})

C2_Witness ==
    /\ TwinGuard
    /\ ~has_fixing_commit
    /\ pc = "done"
    /\ result.kind = "ranked"
    /\ "create_commits" \in calls

\* C3 as stated: every run with an empty interval string and a non-empty tag
\* list ends with the sentinel (None, -1), and scans no candidate.
C3_Original ==
    (Terminated /\ version_interval = "" /\ Len(tags) > 0)
        => (result = Sentinel(-1) /\ "create_commits" \notin calls)

\* C3 amended: a run with an empty interval string and a non-empty tag list
\* scans no candidate; it ends with the sentinel (None, -1) unless the twin
\* short-circuit succeeded, and then it has returned the twins with
\* has_fixing_commit set.
C3_EmptyIntervalIsFatal ==
    (version_interval = "" /\ Len(tags) > 0)
        => /\ "create_commits" \notin calls
           /\ pc # "exited"
           /\ pc = "done" =>
                 IF has_fixing_commit
                 THEN result.kind = "ranked" /\ calls = {}
                 ELSE result = Sentinel(-1)

C3_Witness ==
    /\ pc = "done"
    /\ version_interval = ""
    /\ Len(tags) > 0
    /\ TwinGuard
    /\ result = Sentinel(-1)

\* C4: once tag resolution has answered (empty, empty) for a supplied interval
\* the run is over with the sentinel (None, -1): the repository was not asked
\* for candidates, the store was not asked anything, nothing was preprocessed
\* or ranked.
C4_UnresolvedIsFatal ==
    ("get_possible_tags" \in calls /\ prev_tag = "" /\ next_tag = "")
        => /\ version_interval # ""
           /\ pc = "done"
           /\ result = Sentinel(-1)
           /\ calls = {"get_possible_tags"}
           /\ candidates = <<>>
           /\ gets = <<>> /\ posts = <<>>
           /\ counter = 0 /\ preprocessed_commits = <<>> /\ ranked_candidates = <<>>

C4_Witness ==
    /\ pc = "done"
    /\ "get_possible_tags" \in calls
    /\ Len(tags) > 0
    /\ prev_tag = "" /\ next_tag = ""
    /\ result = Sentinel(-1)

\* C5: at the ceiling check, a filtered candidate count above limit_candidates
\* ends the run with (None, count) before any store lookup, preprocessing,
\* persistence or ranking; a count up to the ceiling goes on to preprocessing.
C5_HardCap ==
    [][pc = "cap"
         => IF Len(candidates) > limit_candidates
            THEN /\ pc' = "done"
                 /\ result' = Sentinel(Len(candidates))
                 /\ calls' = {"get_possible_tags", "create_commits", "filter_commits"}
                 /\ gets' = <<>> /\ posts' = <<>>
                 /\ counter' = 0 /\ preprocessed_commits' = <<>>
                 /\ ranked_candidates' = <<>>
            ELSE /\ pc' = "retrieve"
                 /\ result' = NoResult]_vars

C5_Witness ==
    /\ pc = "done"
    /\ Len(candidates) = limit_candidates + 1
    /\ result = Sentinel(limit_candidates + 1)
    /\ gets = <<>> /\ posts = <<>> /\ counter = 0

\* C6 as stated: whenever normalization begins on a candidate set, in the twin
\* search as in the full pipeline, the set is no larger than the ceiling.
C6_Original ==
    /\ pc = "twin_normalize" => Len(twins.commits) <= limit_candidates
    /\ pc = "preprocess" => Len(candidates) <= limit_candidates

\* C6 amended: whenever the full pipeline begins to normalize raw commits, the
\* candidate set, and with it the list of missing commits taken from it, is no
\* larger than the ceiling (the twin search normalizes what its lookups found,
\* whatever the ceiling).
C6_CeilingBeforePreprocessing ==
    pc \in {"retrieve", "preprocess"}
        => /\ Len(candidates) <= limit_candidates
           /\ Len(missing) <= limit_candidates
           /\ Range(missing) \subseteq Range(candidates)

C6_Witness ==
    /\ pc = "preprocess"
    /\ counter = 0
    /\ Len(candidates) = limit_candidates
    /\ Len(missing) = limit_candidates

\* the ids of the records the store has returned in this run
ReturnedIds == UNION {CommitIds(gets[k].body) : k \in 1..Len(gets)}

\* the store was found unreachable (it can only be the last request)
StoreWentDown == Len(gets) > 0 /\ gets[Len(gets)].answer = "unreachable"

\* C7: when retrieve_preprocessed_commits has returned, the missing list is
\* exactly the candidate ids minus the ids the store returned, whatever the
\* store answered (duplicates, ids nobody asked for).
C7_Original ==
    (pc = "preprocess" /\ counter = 0 /\ use_backend # "never" /\ ~StoreWentDown)
        => Range(missing) = Range(candidates) \ ReturnedIds

\* C8: the payload of every POST holds exactly one record for each commit of
\* the missing list, and no record of a commit the store returned.
C8_Original ==
    \A k \in 1..Len(posts) :
        /\ Len(posts[k].payload) = Len(missing)
        /\ CommitIds(posts[k].payload) = Range(missing)

\* the run is in or past the local preprocessing of the full pipeline
InPreprocessing ==
    \/ pc \in {"preprocess", "save", "evaluate", "aggregate"}
    \/ pc = "done" /\ "make_from_raw_commit" \in calls

\* the preprocessing loop of the full pipeline ran to its end
PreprocessingOver ==
    \/ pc \in {"save", "evaluate", "aggregate"}
    \/ pc = "done" /\ "evaluate_commits" \in calls

\* the first n candidates, normalized here in full, in candidate order
LocalCommits(n) == [i \in 1..n |-> make_from_raw_commit(candidates[i], FALSE)]

C10_Unreachable ==
    /\ pc = "exited" <=> (StoreWentDown /\ use_backend = "always")
    /\ pc = "exited" =>
          /\ result = NoResult
          /\ counter = 0
          /\ calls \cap {"make_from_raw_commit", "evaluate_commits", "POST"} = {}
    /\ (StoreWentDown /\ use_backend = "ifavailable") =>
          /\ InPreprocessing
          /\ missing = candidates
          /\ preprocessed_commits = LocalCommits(counter)

\* C10 as stated: ... and in mode "ifavailable" the run preprocesses all the
\* candidates locally and returns a ranked result.
C10_Original ==
    /\ C10_Unreachable
    /\ (StoreWentDown /\ use_backend = "ifavailable" /\ pc = "done") =>
          /\ result.kind = "ranked"
          /\ counter = Len(candidates)

\* C10 amended: ... and in mode "ifavailable" the run preprocesses all the
\* candidates locally and returns a ranked result, unless the overload check
\* of the preprocessing loop ends it with (None, len(candidates)) at a
\* checkpoint, before anything is written to the store.
C10_UnreachableStore ==
    /\ C10_Unreachable
    /\ (StoreWentDown /\ use_backend = "ifavailable" /\ pc = "done") =>
          \/ /\ result.kind = "ranked"
             /\ counter = Len(candidates)
          \/ /\ result = Sentinel(Len(candidates))
             /\ Len(candidates) > OverloadMin
             /\ counter > 0 /\ counter % CheckEvery = 0
             /\ posts = <<>>
             /\ "evaluate_commits" \notin calls

C10_Witness ==
    /\ use_backend = "ifavailable"
    /\ Len(gets) = 2
    /\ gets[1].answer = "200" /\ Len(gets[1].body) > 0
    /\ gets[2].answer = "unreachable"
    /\ pc = "done"
    /\ result.kind = "ranked"
    /\ preprocessed_commits = LocalCommits(Len(candidates))

\* how many times x occurs in the sequence s
Count(s, x) == Cardinality({i \in 1..Len(s) : s[i] = x})

\* a holds nothing b does not hold at least as often
SubBag(a, b) == \A x \in Range(a) : Count(a, x) <= Count(b, x)

\* a is a reordering of b
SameBag(a, b) == Len(a) = Len(b) /\ SubBag(a, b)

\* the wire records of the commits the run holds
WireRecords == [i \in 1..Len(preprocessed_commits) |-> to_dict(preprocessed_commits[i])]

\* C11: whatever the POST to the store came to (answered with any status, or
\* the store unreachable), in every store mode the run goes on: it is never
\* left, the commits it ranks are the ones it held before the write (the
\* payload is their wire form), the ranking is a reordering of them, and the
\* run returns that ranking, aggregated, as its ranked result.
C11_WriteIsBestEffort ==
    \A k \in 1..Len(posts) :
        /\ pc \in {"evaluate", "aggregate", "done"}
        /\ posts[k].payload = WireRecords
        /\ pc = "aggregate" => SameBag(ranked_candidates, preprocessed_commits)
        /\ pc = "done" =>
              /\ result.kind = "ranked"
              /\ result.commits = ranked_candidates
              /\ SubBag(result.commits, preprocessed_commits)
              /\ next_tag = "" => SameBag(result.commits, preprocessed_commits)

\* a run whose POST found the store unreachable has returned a ranked result
C11_Witness ==
    /\ pc = "done"
    /\ Len(posts) = 1
    /\ posts[1].outcome = "connection_error"
    /\ result.kind = "ranked"
    /\ Len(result.commits) >= 2
    /\ use_backend = "always"

\* the run was ended by the overload check of the preprocessing loop
OverloadAbort == pc = "done" /\ result.kind = "sentinel" /\ counter > 0

\* the loop stands at a checkpoint where the three conditions hold
OverloadCheckpoint ==
    /\ "make_from_raw_commit" \in calls
    /\ counter > 0
    /\ counter % CheckEvery = 0
    /\ over_time
    /\ Len(candidates) > OverloadMin

\* C12: the overload check ends a run only at a checkpoint: the number of
\* commits processed is a positive multiple of the sampling step, there are
\* more candidates than the threshold and the elapsed time is over twice the
\* number processed. At such a checkpoint the run does end, at once, with
\* (absent, number of candidates), with no POST and no ranking. A run with no
\* more candidates than the threshold is never ended by the check.
C12_OverloadAbort ==
    /\ OverloadAbort =>
          /\ OverloadCheckpoint
          /\ result = Sentinel(Len(candidates))
          /\ posts = <<>>
          /\ ranked_candidates = <<>>
          /\ calls \cap {"POST", "evaluate_commits", "tag_and_aggregate_commits"} = {}
    /\ OverloadCheckpoint => OverloadAbort
    /\ Len(candidates) <= OverloadMin => ~OverloadAbort

\* a slow run over more candidates than the threshold was ended at its first
\* checkpoint
C12_Witness ==
    /\ OverloadAbort
    /\ counter = CheckEvery
    /\ Len(candidates) = OverloadMin + 1
    /\ result.count = OverloadMin + 1
    /\ use_backend = "always"

\* C20: a run of prospector() that reaches the retrieval of candidates holds a
\* non-empty prev_tag or next_tag, so that, whatever the publication timestamp
\* and the time limits are, create_commits is called with since and until
\* absent: the entry point never uses the time-bounded window.
C20_WindowNeverUsed ==
    /\ (pc = "get_commits" \/ "create_commits" \in calls)
          => (prev_tag # "" \/ next_tag # "")
    /\ window = NoWindow

\* the repository was asked for candidates with one tag only
C20_Witness ==
    /\ "create_commits" \in calls
    /\ pc = "filter"
    /\ prev_tag # "" /\ next_tag = ""
    /\ Len(candidates) > 0
    /\ window = NoWindow

\* C15: every commit of a ranked result of the full pipeline has the id of a
\* candidate that survived filtering, whatever the store answered: the result
\* holds no commit that only the store supplied.
C15_Original ==
    (pc = "done" /\ result.kind = "ranked" /\ "evaluate_commits" \in calls)
        => CommitIds(result.commits) \subseteq Range(candidates)

\* the last GET of the run was answered with a status other than 200
LastRefused == Len(gets) > 0 /\ gets[Len(gets)].answer = "refused"

\* the ids of the batch that got no 200 answer and of every batch after it
Unanswered == Range(SubSeq(candidates, (Len(gets) - 1) * BatchSize + 1, Len(candidates)))

\* the records of the 200 answers of the run, in the order they came
Hits == Flatten([k \in 1..Len(gets) |-> gets[k].body])

\* C17: the store is asked in consecutive batches of at most BatchSize ids, in
\* candidate order, each batch once; after the first answer that is not a
\* success no further batch is asked; the records of the earlier successful
\* batches are kept as hits, and every id of the failed batch and of all the
\* later batches is in the missing list.
C17_Original ==
    /\ \A k \in 1..Len(gets) :
          /\ gets[k].ids = BatchArgs(candidates, (k - 1) * BatchSize)
          /\ Len(gets[k].ids) \in 1..BatchSize
          /\ k < Len(gets) => gets[k].answer = "200"
    /\ (LastRefused /\ pc = "preprocess" /\ counter = 0)
          => preprocessed_commits = [i \in 1..Len(Hits) |-> parse_obj(Hits[i])]
    /\ (LastRefused /\ InPreprocessing)
          => Unanswered \subseteq Range(missing)

\* every candidate was asked for in a batch whose 200 answer holds its record
AllFound ==
    /\ candidates # <<>>
    /\ \A c \in Range(candidates) :
          \E k \in 1..Len(gets) :
             /\ gets[k].answer = "200"
             /\ c \in Range(gets[k].ids)
             /\ c \in CommitIds(gets[k].body)

\* C18: the run POSTs to the store at most once; when it has, every lookup
\* batch and the whole local preprocessing are over and at least one commit
\* was normalized locally; when every candidate was found in the store, no
\* commit is normalized locally and nothing is POSTed.
C18_StoreAccessOrder ==
    /\ Len(posts) <= 1
    /\ posts # <<>> =>
          /\ pc \in {"evaluate", "aggregate", "done"}
          /\ lookup = NoLookup
          /\ counter = Len(missing)
          /\ counter >= 1
          /\ \E i \in 1..Len(preprocessed_commits) : preprocessed_commits[i].origin = "full"
    /\ (AllFound /\ pc \in {"preprocess", "save", "evaluate", "aggregate", "done"}) =>
          /\ missing = <<>>
          /\ counter = 0
          /\ posts = <<>>
          /\ calls \cap {"make_from_raw_commit", "POST"} = {}
          /\ \A i \in 1..Len(preprocessed_commits) : preprocessed_commits[i].origin = "store"

\* two batches found every candidate in the store: the run ranked the
\* store's commits and wrote nothing
C18_Witness ==
    /\ AllFound
    /\ Len(gets) = 2
    /\ pc = "done"
    /\ result.kind = "ranked"
    /\ Len(result.commits) = Len(candidates)
    /\ posts = <<>>

\* the positions of a run, in the order prospector() goes through them
Stages ==
    <<"start", "twin_lookup", "twin_filter", "twin_normalize", "twin_rank", "twin_check",
      "interval", "get_commits", "filter", "cap", "retrieve", "preprocess", "save",
      "evaluate", "aggregate", "done", "exited">>

\* the rank of each position in that order
StageOf == [p \in Range(Stages) |-> CHOOSE i \in 1..Len(Stages) : Stages[i] = p]

\* the turns the loop of the current position has left, at most
TurnsLeft ==
    IF pc = "retrieve"
    THEN IF lookup.broke THEN 0 ELSE Len(candidates) + BatchSize + 1 - lookup.i
    ELSE IF pc = "preprocess" THEN Len(missing) - counter
    ELSE 0

\* a bound on the number of steps the run has left
Measure == (Len(Stages) - StageOf[pc]) * (2 * NumIds + 2) + TurnsLeft

\* the run returned one of the three results of prospector()
ReturnedResult ==
    /\ pc = "done"
    /\ \/ result.kind = "ranked"
       \/ /\ result = Sentinel(-1)
          /\ \/ version_interval = ""
             \/ "get_possible_tags" \in calls /\ prev_tag = "" /\ next_tag = ""
       \/ /\ result = Sentinel(Len(candidates))
          /\ \/ counter = 0 /\ Len(candidates) > limit_candidates
             \/ OverloadCheckpoint

\* C16 as stated: a run that cannot go on has terminated, and a terminated
\* run has returned a ranked result, (None, -1) for a missing or unresolvable
\* interval, or (None, count) for too many candidates or an overload.
C16_Original ==
    /\ Terminated \/ ENABLED Next
    /\ Terminated => ReturnedResult

\* C16 amended: every step brings the run nearer to its end and a run that
\* cannot go on has terminated; a terminated run has returned a ranked
\* result, (None, -1) for a missing or unresolvable interval, or
\* (None, count) for too many candidates or an overload, or else it has ended
\* the process without a result, which happens only in mode "always" after a
\* connection error of the store lookup: never for a missing or unresolvable
\* interval and never for too many candidates.
C16_Terminates ==
    /\ [][Measure' < Measure]_vars
    /\ [](Measure \in Nat)
    /\ [](Terminated \/ ENABLED Next)
    /\ [](Terminated =>
            \/ ReturnedResult
            \/ /\ pc = "exited"
               /\ result = NoResult
               /\ use_backend = "always" /\ StoreWentDown
               /\ version_interval # ""
               /\ prev_tag # "" \/ next_tag # ""
               /\ Len(candidates) <= limit_candidates)

\* a run ended the process: the store went down in mode "always"
C16_Witness ==
    /\ pc = "exited"
    /\ use_backend = "always"
    /\ Len(gets) = 2
    /\ gets[2].answer = "unreachable"

\* the tag a commit of the ranking had when the call was made
TagBefore(id) ==
    IF \E i \in 1..Len(agg.commits) : agg.commits[i].commit_id = id
    THEN LET c == CHOOSE c \in Range(agg.commits) : c.commit_id = id
         IN  IF c.tags = <<>> THEN "no-tag" ELSE Head(c.tags)
    ELSE "no-tag"

\* the commits of the call that carry next_tag, in ranked order
Carriers == SelectSeq(agg.commits, LAMBDA c : \E i \in 1..Len(c.tags) : c.tags[i] = next_tag)

\* C13: called with a non-empty next_tag, tag_and_aggregate_commits returns
\* the commits of its input whose tags contain next_tag, in ranked order,
\* and no other; the tag list of each returned commit is [next_tag]; each
\* twin entry keeps its id and gets the tag the twin commit had in the input
\* before any tag list was overwritten, or "no-tag" when no input commit has
\* that id.
C13_KeepsTaggedCommits ==
    (pc = "returned" /\ next_tag # "") =>
        /\ Len(agg.returned) = Len(Carriers)
        /\ \A k \in 1..Len(agg.returned) :
              /\ agg.returned[k].commit_id = Carriers[k].commit_id
              /\ agg.returned[k].tags = <<next_tag>>
              /\ Len(agg.returned[k].twins) = Len(Carriers[k].twins)
              /\ \A j \in 1..Len(agg.returned[k].twins) :
                    /\ agg.returned[k].twins[j].id = Carriers[k].twins[j].id
                    /\ agg.returned[k].twins[j].tag = TagBefore(Carriers[k].twins[j].id)

\* of two commits the one without the tag was dropped; the one kept had two
\* tags, and its twin, a commit kept or dropped, got that commit's first tag
C13_Witness ==
    /\ pc = "returned"
    /\ next_tag = "v1"
    /\ Len(agg.commits) = 2
    /\ Len(agg.returned) = 1
    /\ agg.commits[2].tags = <<"v2", "v1">>
    /\ agg.commits[2].twins = <<[tag |-> "v1", id |-> 2]>>
    /\ agg.returned[1].commit_id = 2
    /\ agg.returned[1].tags = <<"v1">>
    /\ agg.returned[1].twins = <<[tag |-> "v2", id |-> 2]>>

\* every tag of the commits of a list: tag lists and twin entries
TagsOf(commits) ==
    UNION {Range(commits[k].tags) \cup {commits[k].twins[j].tag : j \in 1..Len(commits[k].twins)} :
              k \in 1..Len(commits)}

\* C14 as stated: every tag in a commit that tag_and_aggregate_commits
\* returns, in its tag list or in a twin entry, is a tag of the repository.
C14_Original ==
    pc = "returned" => TagsOf(agg.returned) \subseteq Range(tags)

\* C14 amended: every tag in a returned commit is next_tag, a tag the input
\* commits already held, or the sentinel "no-tag"; for input commits whose
\* tags are tags of the repository, every tag in the tag list of a returned
\* commit is a tag of the repository and every tag of a twin entry is a tag
\* of the repository or "no-tag".
C14_TagsOfTheRepository ==
    pc = "returned" =>
        /\ TagsOf(agg.returned) \subseteq TagsOf(agg.commits) \cup {next_tag, "no-tag"}
        /\ \A k \in 1..Len(agg.returned) :
              /\ Range(agg.returned[k].tags) \subseteq Range(tags)
              /\ \A j \in 1..Len(agg.returned[k].twins) :
                    agg.returned[k].twins[j].tag \in Range(tags) \cup {"no-tag"}

\* a returned commit has a twin that is no commit of the ranking
C14_Witness ==
    /\ pc = "returned"
    /\ next_tag = "v2"
    /\ Len(agg.returned) = 2
    /\ agg.returned[1].twins # <<>>
    /\ agg.returned[1].twins[1] = [tag |-> "no-tag", id |-> MaxCommits + 1]
    /\ agg.returned[2].twins # <<>>
    /\ agg.returned[2].twins[1].tag = "v1"

\* C19: get_commits called with both tags empty, a publication timestamp and
\* the default time limits of prospector() asks for the window from three
\* years before the publication to one year after it, so that
\* since <= published <= until; called with a tag, or without a timestamp,
\* it leaves since and until absent.
C19_Original ==
    pc = "returned" =>
        IF prev_tag = "" /\ next_tag = "" /\ wargs.published # 0
        THEN (wargs.before = -THREE_YEARS /\ wargs.after = ONE_YEAR) =>
                /\ window.bounded
                /\ window.since = wargs.published - THREE_YEARS
                /\ window.until = wargs.published + ONE_YEAR
                /\ window.since <= wargs.published
                /\ wargs.published <= window.until
        ELSE window = NoWindow

====
